---- MODULE Spec2Model ----
(***************************************************************************)
(* Model of train_loops.py: the hyperparameter search run_optuna_tune      *)
(* (ray.tune.run with an OptunaSearch behind a ConcurrencyLimiter, an      *)
(* AsyncHyperBandScheduler and fail_fast) and the trial function           *)
(* train_sinkhorn_vae with get_datasets.                                   *)
(*                                                                         *)
(* The running trials are kept as a bag (multiset) of trial records: the   *)
(* trials of one search run the same function and differ only in their     *)
(* local state, so two running trials in the same local state are          *)
(* interchangeable.  The tuner (tune.run's event loop) and every trial     *)
(* function run concurrently; a trial blocks in `yield` until the tuner    *)
(* has handled the reported result.                                        *)
(***************************************************************************)
EXTENDS Integers, Sequences, FiniteSets, Bags, TLC

VARIABLES
    smoke_test,      \* argument of run_optuna_tune
    config,          \* the trial configuration: device, training.max_epochs
    cuda_available,  \* torch.cuda.is_available()
    train_batches,   \* len(train_loader)
    val_batches,     \* len(val_loader)
    created,         \* number of trials tune.run has created and started
    live,            \* bag of the records of the running trials
    ended,           \* outcome -> number of trials that ended that way
    rungs,           \* AsyncHyperBand bracket: milestone -> bag of recorded rewards
    analysis,        \* least 'total_loss' among the results tune.run has received (0: none)
    lock,            \* FileLock(config['dataset']['directory'] + '.lock') is held
    alg_finished,    \* the search algorithm was told to stop suggesting
    search           \* "running", "done" (tune.run returned), "failed" (it raised)

vars == <<smoke_test, config, cuda_available, train_batches, val_batches,
          created, live, ended, rungs, analysis, lock, alg_finished, search>>

(***************************************************************************)
(* Bounds of the model.                                                    *)
(***************************************************************************)
MaxEpochs == 2          \* largest config['training']['max_epochs'] explored
MaxTrainBatches == 2    \* largest number of training batches per epoch
MaxValBatches == 1      \* largest number of validation batches per epoch

\* The loss of a validation batch is one of these.
Losses == {1, 2}

\* What a validation batch can add to the tp/fp/tn/fn counts: a batch with every
\* kind of outcome, one with no positive prediction, one with no negative label.
Confusions ==
    {[tp |-> 1, fp |-> 1, tn |-> 1, fn |-> 1],
     [tp |-> 0, fp |-> 0, tn |-> 1, fn |-> 1],
     [tp |-> 1, fp |-> 0, tn |-> 0, fn |-> 1]}

\* max_epochs explored for the 20-trial search: its trials' epoch loop is empty,
\* so that twenty trials, six at a time, stay explorable.
FullEpochs == {0}

(***************************************************************************)
(* Program constants.                                                      *)
(***************************************************************************)
max_concurrent == 6     \* ConcurrencyLimiter(algorithm, max_concurrent = 6)
grace_period == 1       \* AsyncHyperBandScheduler() defaults
reduction_factor == 4
max_t == 100
time_attr == "training_iteration"
metric == "total_loss"

\* The scheduler set to prefer higher values.
mode_max == "max"

mode == "min"

\* tune.run without fail_fast: a failure ends only the trial that raised.
fail_fast_off == FALSE

fail_fast == TRUE

num_samples(smoke) == IF smoke THEN 2 ELSE 20

Devices == {"cuda:0", "cpu"}

Outcomes == {"TERMINATED", "STOPPED", "KILLED", "ERROR"}

(***************************************************************************)
(* Helpers on bags.                                                        *)
(***************************************************************************)
One(r) == SetToBag({r})

Replace(b, r, r2) == (b (-) One(r)) (+) One(r2)

NumAt(p) ==
    BagCardinality([r \in {x \in BagToSet(live) : x.pc = p} |-> live[r]])

Min(S) == CHOOSE x \in S : \A y \in S : x <= y

RECURSIVE SortBag(_)
SortBag(b) ==
    IF BagToSet(b) = {} THEN <<>>
    ELSE LET m == Min(BagToSet(b)) IN <<m>> \o SortBag(b (-) One(m))

RECURSIVE Factorial(_)
Factorial(n) == IF n <= 1 THEN 1 ELSE n * Factorial(n - 1)

\* 'total_loss' values are kept as integers in units of 1/Scale.
Scale == Factorial(MaxValBatches)

(***************************************************************************)
(* The trial function train_sinkhorn_vae(config).                          *)
(***************************************************************************)
\* The local state of a trial whose function has not yet run a statement.
NewTrial ==
    [pc |-> "begin",
     device |-> "none",        \* local `device`
     prep_device |-> "none",   \* device given to BertPreprocess
     model_device |-> "none",  \* device of model.to(...)
     batch_device |-> "none",  \* device the last batch was moved to
     epoch_num |-> 0,
     it |-> 0,                 \* batches the running loader loop has delivered
     batch_num |-> -1,         \* local `batch_num`; -1: not yet bound
     updates |-> 0,            \* optimizer.step() calls: the version of the parameters
     loss_accum |-> 0, tp_accum |-> 0, fp_accum |-> 0, tn_accum |-> 0, fn_accum |-> 0,
     reports |-> 0,            \* results yielded (the result's training_iteration)
     total_loss |-> 0,         \* 'total_loss' of the last result, in units of 1/Scale
     recorded |-> {},          \* milestones at which the scheduler recorded this trial
     error |-> "none"]

\* What one batch of the validation loader adds to the accumulators.
BatchInputs == [loss : Losses, counts : Confusions]

\* for epoch_num in range(config['training']['max_epochs'])
LoopHead(epoch) == IF epoch < config.max_epochs THEN "train" ELSE "returned"

\* device = config['device']; if device == 'cuda:0' and not available: device = 'cpu'
Begin(r) ==
    /\ r.pc = "begin"
    /\ live' = Replace(live, r,
          [r EXCEPT !.pc = "lock_wait",
                    !.device = IF config.device = "cuda:0" /\ ~cuda_available
                               THEN "cpu" ELSE config.device])
    /\ UNCHANGED <<smoke_test, config, cuda_available, train_batches, val_batches,
                   created, ended, rungs, analysis, lock, alg_finished, search>>

\* get_datasets: with FileLock(directory + '.lock'): blocks while the lock is held
AcquireLock(r) ==
    /\ r.pc = "lock_wait"
    /\ ~lock
    /\ lock' = TRUE
    /\ live' = Replace(live, r, [r EXCEPT !.pc = "in_lock"])
    /\ UNCHANGED <<smoke_test, config, cuda_available, train_batches, val_batches,
                   created, ended, rungs, analysis, alg_finished, search>>

\* The lock after the with-block is left, normally or by an exception.
\* (The first variant releases by a plain call after the block, skipped by an error.)
LockAfterExitNoRelease(raised) == raised

LockAfterExit(raised) == FALSE

\* The locked section runs to its end; BertPreprocess gets config['device'].
LeaveSection(r) ==
    /\ r.pc = "in_lock"
    /\ lock' = LockAfterExit(FALSE)
    /\ live' = Replace(live, r,
          [r EXCEPT !.pc = "setup", !.prep_device = config.device])
    /\ UNCHANGED <<smoke_test, config, cuda_available, train_batches, val_batches,
                   created, ended, rungs, analysis, alg_finished, search>>

\* A call inside the locked section raises (a file or the hub model cannot be loaded).
SectionRaises(r) ==
    /\ r.pc = "in_lock"
    /\ lock' = LockAfterExit(TRUE)
    /\ live' = Replace(live, r, [r EXCEPT !.pc = "raised", !.error = "DatasetError"])
    /\ UNCHANGED <<smoke_test, config, cuda_available, train_batches, val_batches,
                   created, ended, rungs, analysis, alg_finished, search>>

\* model = VAE(...); model.to(device); optimizer, loss functions; first loop test
Setup(r) ==
    /\ r.pc = "setup"
    /\ live' = Replace(live, r,
          [r EXCEPT !.pc = LoopHead(0), !.model_device = r.device])
    /\ UNCHANGED <<smoke_test, config, cuda_available, train_batches, val_batches,
                   created, ended, rungs, analysis, lock, alg_finished, search>>

\* The trial's locals after one training batch (with optimizer.step()); after the
\* last one the accumulators are reset and the validation loop starts.
AfterTrainBatch(r) ==
    LET last == r.it + 1 = train_batches
        r1 == [r EXCEPT !.batch_num = r.it, !.it = r.it + 1,
                        !.batch_device = r.device, !.updates = r.updates + 1]
        r2 == [r1 EXCEPT !.pc = "val", !.it = 0,
                         !.loss_accum = 0, !.tp_accum = 0, !.fp_accum = 0,
                         !.tn_accum = 0, !.fn_accum = 0]
    IN IF last THEN r2 ELSE r1

RECURSIVE StepAll(_)
StepAll(b) ==
    IF BagToSet(b) = {} THEN EmptyBag
    ELSE LET y == CHOOSE y \in BagToSet(b) : TRUE
         IN One([y EXCEPT !.updates = y.updates + 1]) (+) StepAll(b (-) One(y))

\* A variant in which the optimizer steps parameters shared by all running trials.
TrainedShared(b, r) ==
    StepAll(Replace(b, r, [AfterTrainBatch(r) EXCEPT !.updates = r.updates]))

\* model, optimizer and accumulators are locals of the trial's own call: the
\* batch changes this trial's record and no other.
Trained(b, r) == Replace(b, r, AfterTrainBatch(r))

TrainBatch(r) ==
    /\ r.pc = "train"
    /\ r.it < train_batches
    /\ live' = Trained(live, r)
    /\ UNCHANGED <<smoke_test, config, cuda_available, train_batches, val_batches,
                   created, ended, rungs, analysis, lock, alg_finished, search>>

\* One validation batch under torch.no_grad(): no optimizer call.
ValBatch(r) ==
    /\ r.pc = "val"
    /\ r.it < val_batches
    /\ \E b \in BatchInputs :
          /\ live' = Replace(live, r,
                [r EXCEPT !.batch_num = r.it, !.it = r.it + 1,
                          !.batch_device = r.device,
                          !.loss_accum = r.loss_accum + b.loss,
                          !.tp_accum = r.tp_accum + b.counts.tp,
                          !.fp_accum = r.fp_accum + b.counts.fp,
                          !.tn_accum = r.tn_accum + b.counts.tn,
                          !.fn_accum = r.fn_accum + b.counts.fn,
                          !.pc = IF r.it + 1 = val_batches THEN "yield" ELSE "val"])
    /\ UNCHANGED <<smoke_test, config, cuda_available, train_batches, val_batches,
                   created, ended, rungs, analysis, lock, alg_finished, search>>

\* The divisions of the yielded dict are all defined.
MetricsDefined(r) ==
    /\ r.batch_num + 1 # 0
    /\ r.tp_accum + r.fp_accum # 0                          \* precision
    /\ r.tp_accum + r.fn_accum # 0                          \* recall
    /\ r.tp_accum + r.fn_accum + r.tn_accum + r.fn_accum # 0 \* accuracy
    /\ r.tn_accum + r.fp_accum # 0                          \* specificity

\* 'total_loss' : loss_accum / (batch_num + 1), in units of 1/Scale
TotalLoss(r) == (r.loss_accum * Scale) \div (r.batch_num + 1)

\* The accumulators and batch_num are not read again before lines 94-102 and the
\* loops rebind them: the record drops their values where they die.
Dead(r) ==
    [r EXCEPT !.loss_accum = 0, !.tp_accum = 0, !.fp_accum = 0, !.tn_accum = 0,
              !.fn_accum = 0, !.batch_num = -1, !.it = 0]

\* yield {...}: the result is handed to the tuner and the function blocks; a
\* division by zero raises ZeroDivisionError instead.
Yield(r) ==
    /\ r.pc = "yield"
    /\ live' = Replace(live, r,
          IF MetricsDefined(r)
          THEN [Dead(r) EXCEPT !.pc = "reported", !.reports = r.reports + 1,
                               !.total_loss = TotalLoss(r)]
          ELSE [Dead(r) EXCEPT !.pc = "raised", !.error = "ZeroDivisionError"])
    /\ UNCHANGED <<smoke_test, config, cuda_available, train_batches, val_batches,
                   created, ended, rungs, analysis, lock, alg_finished, search>>

(***************************************************************************)
(* The scheduler: AsyncHyperBandScheduler() on metric 'total_loss', mode   *)
(* 'min' (one bracket, rungs at grace_period * reduction_factor^k).        *)
(***************************************************************************)
RECURSIVE RungsFrom(_)
RungsFrom(m) == IF m > max_t THEN {} ELSE {m} \cup RungsFrom(m * reduction_factor)

Milestones == RungsFrom(grace_period)

Max(S) == CHOOSE x \in S : \A y \in S : x >= y

\* mode 'min': rewards are the negated metric
MetricOp == IF mode = "min" THEN -1 ELSE 1

\* The result a trial has yielded last, as the tuner holds it.
Result(r) == [training_iteration |-> r.reports, total_loss |-> r.total_loss]

\* cur_rew < nanpercentile(recorded, (1 - 1/reduction_factor) * 100), with the
\* percentile's linear interpolation, both sides multiplied by reduction_factor
BelowCutoff(recorded, cur_rew) ==
    LET s == SortBag(recorded)
        n == Len(s)
        pos == (reduction_factor - 1) * (n - 1)
        lo == pos \div reduction_factor
        fr == pos % reduction_factor
        hi == IF lo + 1 < n THEN lo + 1 ELSE lo
    IN /\ n > 0
       /\ reduction_factor * cur_rew
            < reduction_factor * s[lo + 1] + fr * (s[hi + 1] - s[lo + 1])

\* _Bracket.on_result: the highest rung the trial has reached and is not recorded
\* at decides, and records the trial's reward.
OnResult(rg, r) ==
    LET cur_iter == Result(r)[time_attr]
        cur_rew == MetricOp * Result(r)[metric]
        open == {m \in Milestones : cur_iter >= m /\ m \notin r.recorded}
    IN IF open = {}
       THEN [action |-> "CONTINUE", rungs |-> rg, recorded |-> r.recorded]
       ELSE LET m == Max(open)
            IN [action |-> IF BelowCutoff(rg[m], cur_rew) THEN "STOP" ELSE "CONTINUE",
                rungs |-> [rg EXCEPT ![m] = @ (+) One(cur_rew)],
                recorded |-> r.recorded \cup {m}]

\* AsyncHyperBandScheduler.on_trial_result
on_trial_result(rg, r) ==
    IF Result(r)[time_attr] >= max_t
    THEN [action |-> "STOP", rungs |-> rg, recorded |-> r.recorded]
    ELSE OnResult(rg, r)

(***************************************************************************)
(* The tuner: tune.run(train_sinkhorn_vae, ...).                           *)
(***************************************************************************)
\* ConcurrencyLimiter(algorithm, max_concurrent = 6): a new trial is suggested
\* only while fewer than max_concurrent suggested trials are unfinished.
\* (The first variant admits one trial too many.)
LimiterAllowsOff == BagCardinality(live) <= max_concurrent

LimiterAllows == BagCardinality(live) < max_concurrent

\* num_samples trials are asked of the search algorithm.
\* (The first variant asks for one more.)
MoreTrialsOff == created <= num_samples(smoke_test)

MoreTrials == created < num_samples(smoke_test)

StartTrial ==
    /\ search = "running"
    /\ ~alg_finished
    /\ MoreTrials
    /\ LimiterAllows
    /\ created' = created + 1
    /\ live' = live (+) One(NewTrial)
    /\ UNCHANGED <<smoke_test, config, cuda_available, train_batches, val_batches,
                   ended, rungs, analysis, lock, alg_finished, search>>

\* A reported result reaches the tuner: the scheduler continues or stops the trial.
ProcessResult(r) ==
    /\ r.pc = "reported"
    /\ analysis' = IF analysis = 0 \/ Result(r)[metric] < analysis
                   THEN Result(r)[metric] ELSE analysis
    /\ LET d == on_trial_result(rungs, r)
       IN /\ rungs' = d.rungs
          /\ IF d.action = "STOP"
             THEN /\ live' = live (-) One(r)
                  /\ ended' = [ended EXCEPT !["STOPPED"] = @ + 1]
             ELSE /\ live' = Replace(live, r,
                        [r EXCEPT !.recorded = d.recorded,
                                  !.epoch_num = r.epoch_num + 1,
                                  !.it = 0,
                                  !.pc = LoopHead(r.epoch_num + 1)])
                  /\ UNCHANGED ended
    /\ UNCHANGED <<smoke_test, config, cuda_available, train_batches, val_batches,
                   created, lock, alg_finished, search>>

\* The trial function has returned: the trial is TERMINATED; the scheduler's
\* on_trial_complete sees the last result once more.
ProcessComplete(r) ==
    /\ r.pc = "returned"
    /\ live' = live (-) One(r)
    /\ ended' = [ended EXCEPT !["TERMINATED"] = @ + 1]
    /\ rungs' = IF r.reports > 0 THEN OnResult(rungs, r).rungs ELSE rungs
    /\ UNCHANGED <<smoke_test, config, cuda_available, train_batches, val_batches,
                   created, analysis, lock, alg_finished, search>>

\* The trial function has raised: the trial is marked ERROR; with fail_fast the
\* experiment is stopped: every other trial is stopped where it stands (a killed
\* holder's file lock is dropped with its process) and nothing more is suggested.
ProcessFailure(r) ==
    /\ r.pc = "raised"
    /\ IF fail_fast
       THEN /\ live' = EmptyBag
            /\ ended' = [ended EXCEPT !["ERROR"] = @ + 1,
                                      !["KILLED"] = @ + BagCardinality(live) - 1]
            /\ alg_finished' = TRUE
            /\ lock' = FALSE
       ELSE /\ live' = live (-) One(r)
            /\ ended' = [ended EXCEPT !["ERROR"] = @ + 1]
            /\ UNCHANGED <<alg_finished, lock>>
    /\ UNCHANGED <<smoke_test, config, cuda_available, train_batches, val_batches,
                   created, rungs, analysis, search>>

\* No trial is left and none will come: tune.run returns, or raises TuneError
\* when a trial did not complete.
Finish ==
    /\ search = "running"
    /\ live = EmptyBag
    /\ alg_finished \/ ~MoreTrials
    /\ search' = IF ended["ERROR"] > 0 THEN "failed" ELSE "done"
    /\ UNCHANGED <<smoke_test, config, cuda_available, train_batches, val_batches,
                   created, live, ended, rungs, analysis, lock, alg_finished>>

(***************************************************************************)
(* Specifications.                                                         *)
(***************************************************************************)
\* run_optuna_tune(smoke_test) is called: no trial exists yet.
Init ==
    /\ smoke_test \in BOOLEAN
    /\ config \in [device : Devices,
                   max_epochs : IF smoke_test THEN 0..MaxEpochs ELSE FullEpochs]
    /\ cuda_available \in BOOLEAN
    /\ train_batches \in 1..(IF smoke_test THEN MaxTrainBatches ELSE 1)
    /\ val_batches \in 1..(IF smoke_test THEN MaxValBatches ELSE 1)
    /\ created = 0
    /\ live = EmptyBag
    /\ ended = [o \in Outcomes |-> 0]
    /\ rungs = [m \in Milestones |-> EmptyBag]
    /\ analysis = 0
    /\ lock = FALSE
    /\ alg_finished = FALSE
    /\ search = "running"

Next ==
    \/ StartTrial
    \/ \E r \in BagToSet(live) : Begin(r)
    \/ \E r \in BagToSet(live) : AcquireLock(r)
    \/ \E r \in BagToSet(live) : LeaveSection(r)
    \/ \E r \in BagToSet(live) : SectionRaises(r)
    \/ \E r \in BagToSet(live) : Setup(r)
    \/ \E r \in BagToSet(live) : TrainBatch(r)
    \/ \E r \in BagToSet(live) : ValBatch(r)
    \/ \E r \in BagToSet(live) : Yield(r)
    \/ \E r \in BagToSet(live) : ProcessResult(r)
    \/ \E r \in BagToSet(live) : ProcessComplete(r)
    \/ \E r \in BagToSet(live) : ProcessFailure(r)
    \/ Finish

Spec == Init /\ [][Next]_vars

\* The devices steer no branch after line 31: the behaviours that are followed to
\* their end are those of one device configuration, the fallback one.
FairInit == Init /\ config.device = "cuda:0" /\ ~cuda_available

\* Every trial's process and the tuner's loop keep running.
FairSpec == FairInit /\ [][Next]_vars /\ WF_vars(Next)

(***************************************************************************)
(* Properties.                                                             *)
(***************************************************************************)
Running == BagCardinality(live)

Trials == BagToSet(live)

\* C1: at every moment of the search at most 6 trials are running (started and
\* not yet finished, stopped or failed), whatever the order of the events.
C1_ConcurrencyCap == Running <= 6

\* Six trials run, at different places of their function, and more are wanted.
C1_Witness ==
    /\ Running = 6
    /\ created < 20 /\ ~smoke_test
    /\ NumAt("lock_wait") > 0 /\ NumAt("in_lock") = 1 /\ NumAt("returned") > 0

\* A trial's function has raised, or the tuner has already marked a trial ERROR.
Raised == \E r \in Trials : r.pc = "raised"

Errored == ended["ERROR"] > 0

\* C2 as stated: from the moment a trial's function raises, no new trial is
\* started, no running trial is carried to completion, and the search does not
\* end successfully.
C2_Original ==
    [][(Raised \/ Errored) =>
          /\ created' = created
          /\ ended'["TERMINATED"] = ended["TERMINATED"]
          /\ search' # "done"]_vars

\* C2, amended: from the moment the tuner has received a trial's failure, the
\* search is aborted: nothing is running any more, no new trial is started, no
\* further trial completes, and the search ends failed, never successful.
C2_FailFast ==
    /\ [](Errored =>
            /\ live = EmptyBag
            /\ alg_finished
            /\ search \in {"running", "failed"})
    /\ [][Errored =>
            /\ created' = created
            /\ ended' = ended
            /\ search' = "failed"]_vars

\* A failure was received while other trials ran and trials were still wanted:
\* the others were killed and the search ended failed.
C2_Witness ==
    /\ ended["ERROR"] = 1 /\ ended["KILLED"] >= 1
    /\ created < num_samples(smoke_test)
    /\ search = "failed"

C4_EarlyStopping ==
    [][/\ rungs' # rungs =>
            \E r \in Trials :
               r.pc = "reported" /\ CopiesIn(r, live') < CopiesIn(r, live)
       /\ ended'["STOPPED"] # ended["STOPPED"] =>
            \E r \in Trials :
               /\ r.pc = "reported"
               /\ live' = live (-) One(r)
               /\ BagCardinality(live') = Running - 1
               /\ ended'["STOPPED"] = ended["STOPPED"] + 1
               /\ analysis # 0 /\ analysis < r.total_loss]_vars

\* A trial was stopped early and the search ended successfully.
C4_Witness == ended["STOPPED"] = 1 /\ ended["TERMINATED"] = 1 /\ search = "done"

PastSetup(r) == r.model_device # "none"

\* C6: in a trial every epoch is a full training pass (one optimizer step per
\* batch), then a validation pass (no optimizer step), then one report: the k-th
\* report follows k training passes, no report follows the max_epochs-th, and a
\* trial whose function ends without having been stopped has reported exactly
\* max_epochs results.
C6_EpochOrder ==
    \A r \in Trials :
       /\ r.reports <= config.max_epochs
       /\ r.pc \in {"val", "yield"} =>
             r.reports = r.epoch_num /\ r.updates = (r.epoch_num + 1) * train_batches
       /\ r.pc = "reported" =>
             r.reports = r.epoch_num + 1 /\ r.updates = r.reports * train_batches
       /\ (PastSetup(r) /\ r.pc \in {"returned", "raised"}) =>
             r.reports = config.max_epochs

\* C7 as stated: at most one trial is inside the locked section, the lock is held
\* exactly while one is, and a waiting trial leaves the wait only by being
\* admitted, which eventually happens.
C7_Original ==
    /\ [](NumAt("in_lock") <= 1 /\ (lock <=> NumAt("in_lock") = 1))
    /\ [][NumAt("lock_wait")' < NumAt("lock_wait") =>
             /\ NumAt("lock_wait")' = NumAt("lock_wait") - 1
             /\ NumAt("in_lock")' = NumAt("in_lock") + 1]_vars
    /\ (NumAt("lock_wait") > 0) ~> (NumAt("lock_wait") = 0)

\* C7, amended: at most one trial is inside the locked section and the lock is
\* held exactly while one is (it is free again after a normal return and after an
\* error); a waiting trial leaves the wait by being admitted or, when the search
\* is aborted after a failure, by being killed, and one of the two eventually
\* happens.
C7_DatasetLock ==
    /\ [](NumAt("in_lock") <= 1 /\ (lock <=> NumAt("in_lock") = 1))
    /\ [][NumAt("lock_wait")' < NumAt("lock_wait") =>
             \/ /\ NumAt("lock_wait")' = NumAt("lock_wait") - 1
                /\ NumAt("in_lock")' = NumAt("in_lock") + 1
             \/ /\ ended'["ERROR"] = ended["ERROR"] + 1
                /\ live' = EmptyBag]_vars
    /\ (NumAt("lock_wait") > 0) ~> (NumAt("lock_wait") = 0)

\* A trial waits for the lock that was released by a trial whose section raised.
C7_Witness ==
    /\ NumAt("lock_wait") > 0
    /\ NumAt("in_lock") = 1
    /\ \E r \in Trials : r.pc = "raised" /\ r.error = "DatasetError"

\* The device every component of a trial should use.
Expected == IF config.device = "cuda:0" /\ ~cuda_available THEN "cpu" ELSE config.device

\* C8: every component of a trial that is given a device (the model, the batches,
\* the preprocessing function of get_datasets) gets 'cpu' when the configured
\* device is 'cuda:0' and no GPU is available, and the configured device otherwise.
C8_CpuFallback ==
    \A r \in Trials :
       \A d \in {r.device, r.prep_device, r.model_device, r.batch_device} :
          d \in {"none", Expected}

====
